---- MODULE Spec2Model ----
(***************************************************************************)
(* Vertex-weight engine of Wynn's ToolKits (Rig/WynnWeightBrush.py and     *)
(* Rig/EditModeWeight.py): undo stack of the modal brush, the edit-mode    *)
(* Add / Smooth / Harden operators, the topological falloff and the CSR    *)
(* adjacency build.                                                        *)
(*                                                                         *)
(* Numbers.  A Python float is modelled by an exact rational <<n, d>>      *)
(* (d > 0, lowest terms), so that 1/(dist + 0.0001), (steps-i+1)/(steps+1) *)
(* and the thresholds 0.0001 / 1.0001 are the values the source writes.    *)
(* IEEE rounding is not modelled.                                          *)
(***************************************************************************)
EXTENDS Integers, Sequences, FiniteSets, TLC

VARIABLES
    harden,       \* get_harden_target applied repeatedly to one weight
    falloff,      \* one call of get_falloff_targets
    adj,          \* the adjacency build of invoke()
    edit,         \* edit-mode mesh: [vertex -> [group -> weight]]
    elast,        \* the last edit-mode operator call (its inputs and pre-state)
    mesh,         \* brush session: obj.data.vertices[v].groups
    store,        \* brush session: c_weight_indices / c_weight_values
    undo_stack,   \* brush session: self.undo_stack
    painting,     \* brush session: self.painting
    nav,          \* brush session: is_navigating_radius / is_navigating_strength
    session,      \* brush session: dll kind, active group, liveness of the modal
    hist,         \* brush session: the meshes seen at each un-undone stroke start
    unit          \* one call of a per-vertex routine: its arguments and result

vars == <<harden, falloff, adj, edit, elast, mesh, store, undo_stack,
          painting, nav, session, hist, unit>>

----------------------------------------------------------------------------
(* Exact rational arithmetic standing for Python float arithmetic.         *)

Abs(x) == IF x < 0 THEN -x ELSE x

\* a function written out as a table, so that it is computed once
Tab(f) == f @@ <<>>

RECURSIVE GCD(_, _)
GCD(a, b) == IF b = 0 THEN a ELSE GCD(b, a % b)

LCM(a, b) == (a \div GCD(a, b)) * b

Rat(n, d) ==
    LET s == IF d < 0 THEN -1 ELSE 1
        g == GCD(Abs(n), Abs(d))
    IN  <<(s * n) \div g, (s * d) \div g>>

Zero == <<0, 1>>
One == <<1, 1>>
Half == <<1, 2>>

RAdd(a, b) ==
    LET l == LCM(a[2], b[2])
    IN  Rat(a[1] * (l \div a[2]) + b[1] * (l \div b[2]), l)

RNeg(a) == <<-a[1], a[2]>>

RSub(a, b) == RAdd(a, RNeg(b))

RMul(a, b) ==
    LET g1 == GCD(Abs(a[1]), b[2])
        g2 == GCD(Abs(b[1]), a[2])
    IN  Rat((a[1] \div g1) * (b[1] \div g2), (a[2] \div g2) * (b[2] \div g1))

RInv(a) == Rat(a[2], a[1])

RDiv(a, b) == RMul(a, RInv(b))

RLt(a, b) ==
    LET l == LCM(a[2], b[2])
    IN  a[1] * (l \div a[2]) < b[1] * (l \div b[2])

RLeq(a, b) == a = b \/ RLt(a, b)

\* 0.0001, the threshold under which a weight is treated as absent
Eps == <<1, 10000>>

\* 1.0001, the total above which Add (additive mode) rescales
OnePlusEps == <<10001, 10000>>

----------------------------------------------------------------------------
(* get_harden_target                                                       *)

MaxHardenSteps == 3

HardenWeights ==
    {Zero, <<1, 20000>>, Eps, <<1, 4>>, <<3, 10>>, <<49, 100>>, Half,
     <<51, 100>>, <<3, 4>>, <<9999, 10000>>, One}

HardenFactors == {<<1, 4>>, Half, One}

\* a harden target that sends exactly 0.5 down instead of up
get_harden_target_strict(weight, factor) ==
    LET target == IF RLt(Half, weight) THEN One ELSE Zero
    IN  RAdd(weight, RMul(RSub(target, weight), factor))

get_harden_target(weight, factor) ==
    LET target == IF RLeq(Half, weight) THEN One ELSE Zero
    IN  RAdd(weight, RMul(RSub(target, weight), factor))

HardenIdle == [w0 |-> Zero, w |-> Zero, steps |-> 0, first |-> Zero]

InitHarden ==
    harden \in {[w0 |-> w, w |-> w, steps |-> 0, first |-> Zero] :
                    w \in HardenWeights}

HardenStep ==
    /\ harden.steps < MaxHardenSteps
    /\ \E f \in HardenFactors :
          harden' = [harden EXCEPT
                        !.w = get_harden_target(harden.w, f),
                        !.steps = @ + 1,
                        !.first = IF harden.steps = 0 THEN f ELSE @]

\* C5: after a first Harden step with factor 1.0 the weight is exactly 1.0
\* when w0 >= 0.5 and exactly 0.0 otherwise, and it stays there under every
\* further Harden step.
C5_HardenConverges ==
    (harden.steps >= 1 /\ harden.first = One) =>
        harden.w = (IF RLeq(Half, harden.w0) THEN One ELSE Zero)

C5_Witness ==
    /\ harden.steps >= 2
    /\ harden.first = One
    /\ harden.w0 = Half
    /\ harden.w = One

----------------------------------------------------------------------------
(* WynnEditWeightBase.get_falloff_targets                                  *)

NumFVerts == 4
MaxFalloffSteps == 3

FVerts == 0 .. (NumFVerts - 1)

\* candidate edges of the test meshes: a path with chords
FEdgePool == {e \in {{a, b} : a, b \in FVerts} :
                 \E a \in FVerts : e = {a, a + 1} \/ e = {a, a + 2}}

\* a ring factor that grows with the ring index instead of decaying
RingFactorRising(steps, i) == Rat(i, steps + 1)

\* factor = (steps - i + 1) / (steps + 1)
RingFactor(steps, i) == Rat(steps - i + 1, steps + 1)

\* a ring expansion that forgets the visited set
NextRingRevisiting(edges, visited, current_ring) ==
    {o \in UNION edges : \E v \in current_ring : {v, o} \in edges /\ o # v}

\* the vertices one edge away from current_ring that are not yet visited
NextRing(edges, visited, current_ring) ==
    {o \in UNION edges : o \notin visited /\ \E v \in current_ring : {v, o} \in edges}

RECURSIVE FalloffRings(_, _, _, _, _, _)
FalloffRings(edges, steps, i, visited, current_ring, weights) ==
    IF i > steps THEN weights
    ELSE LET next_ring == NextRing(edges, visited, current_ring)
             factor == RingFactor(steps, i)
             w2 == [v \in (DOMAIN weights) \cup next_ring |->
                       IF v \in next_ring THEN factor ELSE weights[v]]
         IN  IF next_ring = {} THEN w2
             ELSE FalloffRings(edges, steps, i + 1, visited \cup next_ring,
                               next_ring, w2)

get_falloff_targets(edges, selected_verts, steps) ==
    LET weights == [v \in selected_verts |-> One]
    IN  IF steps <= 0 THEN weights
        ELSE FalloffRings(edges, steps, 1, selected_verts, selected_verts, weights)

FalloffIdle == [edges |-> {}, seeds |-> {}, steps |-> 0, pc |-> "idle",
                weights |-> <<>>]

InitFalloff ==
    \E es \in SUBSET FEdgePool, sd \in (SUBSET FVerts) \ {{}},
       st \in 0 .. MaxFalloffSteps :
        falloff = [edges |-> es, seeds |-> sd, steps |-> st, pc |-> "call",
                   weights |-> <<>>]

FalloffCall ==
    /\ falloff.pc = "call"
    /\ falloff' = [falloff EXCEPT
                      !.pc = "done",
                      !.weights = get_falloff_targets(falloff.edges, falloff.seeds,
                                                      falloff.steps)]

\* Edge-count distance from the seed set, by growing balls (NumFVerts + 1
\* stands for "unreachable").
RECURSIVE Ball(_, _, _)
Ball(edges, seeds, k) ==
    IF k = 0 THEN seeds
    ELSE LET b == Ball(edges, seeds, k - 1)
         IN  b \cup {o \in FVerts : \E v \in b : {v, o} \in edges}

RingDist(edges, seeds, v) ==
    IF v \notin Ball(edges, seeds, NumFVerts) THEN NumFVerts + 1
    ELSE CHOOSE k \in 0 .. NumFVerts :
            /\ v \in Ball(edges, seeds, k)
            /\ \A j \in 0 .. (k - 1) : v \notin Ball(edges, seeds, j)

FDist(v) == RingDist(falloff.edges, falloff.seeds, v)

FReach == IF falloff.steps <= 0 THEN 0 ELSE falloff.steps

\* C6: the result holds exactly the vertices within `steps` edges of a seed;
\* seeds have factor 1.0, a vertex at distance d has (steps - d + 1)/(steps + 1).
C6_FalloffIsBfs ==
    falloff.pc = "done" =>
        /\ DOMAIN falloff.weights = {v \in FVerts : FDist(v) <= FReach}
        /\ \A v \in DOMAIN falloff.weights :
              falloff.weights[v] =
                  (IF FDist(v) = 0 THEN One
                   ELSE Rat(falloff.steps - FDist(v) + 1, falloff.steps + 1))

C6_Witness ==
    /\ falloff.pc = "done"
    /\ falloff.steps = 2
    /\ \E u, v, x \in FVerts : FDist(u) = 1 /\ FDist(v) = 2 /\ FDist(x) = 3
    /\ \E v \in DOMAIN falloff.weights :
          FDist(v) = 2 /\ falloff.weights[v] = <<1, 3>>

\* C7: a target no farther from the seeds than another has a factor at least
\* as large, and every factor lies in (0, 1].
C7_FalloffMonotone ==
    falloff.pc = "done" =>
        /\ \A u, v \in DOMAIN falloff.weights :
              FDist(u) <= FDist(v) => RLeq(falloff.weights[v], falloff.weights[u])
        /\ \A v \in DOMAIN falloff.weights :
              RLt(Zero, falloff.weights[v]) /\ RLeq(falloff.weights[v], One)

C7_Witness ==
    /\ falloff.pc = "done"
    /\ \E u, v \in DOMAIN falloff.weights :
          /\ FDist(u) = 1
          /\ FDist(v) = 3
          /\ RLt(falloff.weights[v], falloff.weights[u])

----------------------------------------------------------------------------
(* WYNN_OT_smear_perf_monitor.invoke: the CSR adjacency (Python builder)   *)

NumAdjVerts == 3
MaxAdjEdges == 2

\* edge endpoints offered to the builder: the valid indices, one negative
\* index and one index past the end
AdjIdx == -1 .. NumAdjVerts

AdjPairs == {p \in AdjIdx \X AdjIdx : p[1] # p[2]}

AdjEdgeLists == UNION {[1 .. n -> AdjPairs] : n \in 0 .. MaxAdjEdges}

\* vertex coordinates: a unit-spaced line, or the corners of a 3 x 4 rectangle
\* (index i and i + 4 coincide)
AdjLayouts == {"line", "rect"}

Coord(layout, i) ==
    IF layout = "line" THEN <<i, 0, 0>>
    ELSE CASE i % 4 = 0 -> <<0, 0, 0>>
           [] i % 4 = 1 -> <<3, 0, 0>>
           [] i % 4 = 2 -> <<3, 4, 0>>
           [] OTHER -> <<0, 4, 0>>

ISqrt(n) == CHOOSE r \in 0 .. n : r * r = n

\* (v1.co - v2.co).length
VecLength(p, q) ==
    ISqrt((p[1] - q[1]) * (p[1] - q[1]) + (p[2] - q[2]) * (p[2] - q[2])
          + (p[3] - q[3]) * (p[3] - q[3]))

\* an edge weight without the 0.0001 guard, scaled to keep it finite
EdgeWeightNoEps(dist) == RInv(Rat(dist + 1, 1))

\* weight = 1.0 / (dist + 0.0001)
EdgeWeight(dist) == RInv(RAdd(Rat(dist, 1), Eps))

\* Python / bpy sequence indexing: a negative index counts from the end
PyIndexOk(i, n) == -n <= i /\ i < n

PyIndex(i, n) == IF i < 0 THEN i + n ELSE i

\* a builder that records the edge on its first endpoint only
RawAdjAppendOneWay(raw, nv, v1_idx, v2_idx, weight) ==
    [raw EXCEPT ![PyIndex(v1_idx, nv)] = Append(@, <<v2_idx, weight>>)]

\* raw_adj[v1_idx].append((v2_idx, weight)); raw_adj[v2_idx].append((v1_idx, weight))
RawAdjAppend(raw, nv, v1_idx, v2_idx, weight) ==
    LET r1 == [raw EXCEPT ![PyIndex(v1_idx, nv)] = Append(@, <<v2_idx, weight>>)]
    IN  [r1 EXCEPT ![PyIndex(v2_idx, nv)] = Append(@, <<v1_idx, weight>>)]

\* the loop over obj.data.edges; "error" stands for the IndexError raised by
\* vertices[v1_idx] / vertices[v2_idx]
RECURSIVE RawAdj(_, _, _, _, _)
RawAdj(edges, layout, nv, k, raw) ==
    IF k > Len(edges) THEN [ok |-> TRUE, raw |-> raw]
    ELSE LET v1_idx == edges[k][1]
             v2_idx == edges[k][2]
         IN  IF ~PyIndexOk(v1_idx, nv) \/ ~PyIndexOk(v2_idx, nv)
             THEN [ok |-> FALSE, raw |-> raw]
             ELSE LET dist == VecLength(Coord(layout, PyIndex(v1_idx, nv)),
                                        Coord(layout, PyIndex(v2_idx, nv)))
                      weight == EdgeWeight(dist)
                  IN  RawAdj(edges, layout, nv, k + 1,
                             RawAdjAppend(raw, nv, v1_idx, v2_idx, weight))

\* the loop "for i in range(num_verts)": starts[i] = cursor, then the entries
\* of vertex i; starts is 1-based here (starts[i + 1] is c_adj_starts[i])
RECURSIVE FlattenAdj(_, _, _, _, _)
FlattenAdj(raw, nv, i, starts, entries) ==
    IF i = nv THEN [starts |-> Append(starts, Len(entries)), entries |-> entries]
    ELSE FlattenAdj(raw, nv, i + 1, Append(starts, Len(entries)), entries \o raw[i])

BuildAdjacency(nv, edges, layout) ==
    LET r == RawAdj(edges, layout, nv, 1, [i \in 0 .. (nv - 1) |-> <<>>])
    IN  IF ~r.ok THEN [pc |-> "error", starts |-> <<>>, entries |-> <<>>]
        ELSE LET f == FlattenAdj(r.raw, nv, 0, <<>>, <<>>)
             IN  [pc |-> "done", starts |-> f.starts, entries |-> f.entries]

AdjIdle == [nv |-> 0, edges |-> <<>>, layout |-> "line", pc |-> "idle",
            starts |-> <<>>, entries |-> <<>>]

InitAdj ==
    \E es \in AdjEdgeLists, lay \in AdjLayouts :
        adj = [nv |-> NumAdjVerts, edges |-> es, layout |-> lay, pc |-> "call",
               starts |-> <<>>, entries |-> <<>>]

AdjBuild ==
    /\ adj.pc = "call"
    /\ LET b == BuildAdjacency(adj.nv, adj.edges, adj.layout)
       IN  adj' = [adj EXCEPT !.pc = b.pc, !.starts = b.starts,
                              !.entries = b.entries]

AdjInRange ==
    \A k \in 1 .. Len(adj.edges) :
        /\ adj.edges[k][1] \in 0 .. (adj.nv - 1)
        /\ adj.edges[k][2] \in 0 .. (adj.nv - 1)

\* the entries of vertex a: positions starts[a] .. starts[a + 1] - 1 (0-based)
AdjRange(a) == (adj.starts[a + 1] + 1) .. adj.starts[a + 2]

AdjEdgeCount(a, b) ==
    Cardinality({k \in 1 .. Len(adj.edges) :
                    adj.edges[k] = <<a, b>> \/ adj.edges[k] = <<b, a>>})

AdjTrueWeight(a, b) ==
    RInv(RAdd(Rat(VecLength(Coord(adj.layout, a), Coord(adj.layout, b)), 1), Eps))

\* C10: for in-range edges the CSR has starts[0] = 0, non-decreasing starts,
\* starts[V] = 2 * E = the number of entries, and vertex a's range holds b
\* exactly once per edge {a, b}, each time with weight 1/(dist + 1e-4).
C10_CsrWellFormed ==
    (adj.pc # "call" /\ adj.pc # "idle" /\ AdjInRange) =>
        /\ adj.pc = "done"
        /\ Len(adj.starts) = adj.nv + 1
        /\ adj.starts[1] = 0
        /\ \A i \in 1 .. adj.nv : adj.starts[i] <= adj.starts[i + 1]
        /\ adj.starts[adj.nv + 1] = 2 * Len(adj.edges)
        /\ Len(adj.entries) = 2 * Len(adj.edges)
        /\ \A a, b \in 0 .. (adj.nv - 1) :
              /\ Cardinality({k \in AdjRange(a) : adj.entries[k][1] = b})
                    = AdjEdgeCount(a, b)
              /\ \A k \in AdjRange(a) :
                    adj.entries[k][1] = b =>
                        adj.entries[k][2] = AdjTrueWeight(a, b)

C10_Witness ==
    /\ adj.pc = "done"
    /\ AdjInRange
    /\ adj.layout = "rect"
    /\ adj.edges = <<(<<0, 2>>), (<<1, 0>>)>>
    /\ adj.starts = <<0, 2, 3, 4>>
    /\ adj.entries[1] = <<2, <<10000, 50001>> >>

\* C11: when some edge names a vertex index outside 0 .. vertex_count - 1
\* (a negative index included), the adjacency build ends in an error and
\* yields no adjacency structure: no starts array and no entries.
C11_InvalidTopologyRejected ==
    (adj.pc \in {"done", "error"} /\ ~AdjInRange) =>
        /\ adj.pc = "error"
        /\ adj.starts = <<>>
        /\ adj.entries = <<>>

----------------------------------------------------------------------------
(* Deform-vertex weights: dvert (bmesh deform layer) and v.groups.  A       *)
(* vertex's weights are a function from group index to a weight or Absent; *)
(* iteration (dvert.items(), v.groups) goes by ascending group index.      *)

NumGroups == 3

Groups == 0 .. (NumGroups - 1)

Absent == <<0, 0>>

NoWeights == Tab([g \in Groups |-> Absent])

\* dvert.get(g, 0.0)
W(d, g) == IF d[g] = Absent THEN Zero ELSE d[g]

Keys(d) == {g \in DOMAIN d : d[g] # Absent}

RECURSIVE SumOver(_, _)
SumOver(d, gs) ==
    IF gs = {} THEN Zero
    ELSE LET g == CHOOSE x \in gs : TRUE
         IN  RAdd(d[g], SumOver(d, gs \ {g}))

\* sum(dvert.values())
Total(d) == SumOver(d, Keys(d))

\* sum(w for g, w in dvert.items() if g != active_index)
OthersSum(d, active) == SumOver(d, Keys(d) \ {active})

Dv(a, b, c) ==
    Tab([g \in Groups |-> CASE g = 0 -> a [] g = 1 -> b [] g = 2 -> c [] OTHER -> Absent])

----------------------------------------------------------------------------
(* WYNN_OT_add_weight.execute                                              *)

NumEVerts == 2
MaxEditOps == 2

EVerts == 0 .. (NumEVerts - 1)

\* the edit mesh is a path 0 - 1 - ... with unit edge length
EditEdges == {{v, v + 1} : v \in 0 .. (NumEVerts - 2)}

\* weights a vertex may carry when an operator is invoked
DvertChoices ==
    {Dv(One, Absent, Absent),
     Dv(Half, Half, Absent),
     Dv(<<1, 4>>, Half, <<1, 4>>),
     Dv(Absent, Half, Absent),
     Dv(<<9999, 10000>>, Eps, Absent),
     Dv(<<1, 4>>, Zero, Absent),
     Dv(One, One, Absent),
     NoWeights}

\* weights of the vertices other than vertex 0
NeighbourChoices == {Dv(Half, Half, Absent), Dv(Absent, One, Absent)}

\* the group the operator works on (armature bone, auto-detection or the
\* object's active index decide it)
ActiveChoices == {0, 1}

\* (use_falloff, falloff_factor, falloff_steps)
NoFalloff == [use |-> FALSE, ff |-> One, steps |-> 2]
NarrowFalloff == [use |-> TRUE, ff |-> Half, steps |-> 1]
WideFalloff == [use |-> TRUE, ff |-> <<2, 1>>, steps |-> 2]

\* invocations of Add: selection, strength property, falloff properties
AddCalls ==
    {[sel |-> {0}, strength |-> <<-1, 2>>, fc |-> NoFalloff],
     [sel |-> {0}, strength |-> <<1, 4>>, fc |-> NoFalloff],
     [sel |-> EVerts, strength |-> One, fc |-> NoFalloff],
     [sel |-> {0}, strength |-> <<1, 4>>, fc |-> WideFalloff],
     [sel |-> {0}, strength |-> <<-1, 2>>, fc |-> NarrowFalloff]}

\* Mode A without the division by the others' sum
AddNormalizeUnscaled(d, active, raw_new_w) ==
    IF RLeq(One, raw_new_w) THEN [NoWeights EXCEPT ![active] = One]
    ELSE LET d1 == [d EXCEPT ![active] = raw_new_w]
             current_others_sum == OthersSum(d1, active)
         IN  IF RLt(Eps, current_others_sum)
             THEN Tab([g \in Groups |->
                          IF g # active /\ d1[g] # Absent
                          THEN RMul(d1[g], RSub(One, raw_new_w)) ELSE d1[g]])
             ELSE d1

\* Mode A that keeps the other groups when the active one takes all
AddNormalizeKeepOthers(d, active, raw_new_w) ==
    IF RLeq(One, raw_new_w) THEN [d EXCEPT ![active] = One]
    ELSE LET d1 == [d EXCEPT ![active] = raw_new_w]
             current_others_sum == OthersSum(d1, active)
         IN  IF RLt(Eps, current_others_sum)
             THEN LET target_others_sum == RSub(One, raw_new_w)
                      scale == RDiv(target_others_sum, current_others_sum)
                  IN  Tab([g \in Groups |->
                              IF g # active /\ d1[g] # Absent
                              THEN RMul(d1[g], scale) ELSE d1[g]])
             ELSE d1

\* Mode A: auto-normalize
AddNormalize(d, active, raw_new_w) ==
    IF RLeq(One, raw_new_w) THEN [NoWeights EXCEPT ![active] = One]
    ELSE LET d1 == [d EXCEPT ![active] = raw_new_w]
             current_others_sum == OthersSum(d1, active)
         IN  IF RLt(Eps, current_others_sum)
             THEN LET target_others_sum == RSub(One, raw_new_w)
                      scale == RDiv(target_others_sum, current_others_sum)
                  IN  Tab([g \in Groups |->
                              IF g # active /\ d1[g] # Absent
                              THEN RMul(d1[g], scale) ELSE d1[g]])
             ELSE d1

\* Mode B that rescales the active group alone
AddAdditiveActiveOnly(d, active, raw_new_w) ==
    LET d1 == [d EXCEPT ![active] = raw_new_w]
        total_w == Total(d1)
    IN  IF RLt(OnePlusEps, total_w)
        THEN [d1 EXCEPT ![active] = RMul(raw_new_w, RInv(total_w))]
        ELSE d1

\* Mode B that never rescales
AddAdditiveNoRescale(d, active, raw_new_w) == [d EXCEPT ![active] = raw_new_w]

\* Mode B: additive, rescale only above 1.0001
AddAdditive(d, active, raw_new_w) ==
    LET d1 == [d EXCEPT ![active] = raw_new_w]
        total_w == Total(d1)
    IN  IF RLt(OnePlusEps, total_w)
        THEN LET factor == RInv(total_w)
             IN  Tab([g \in Groups |->
                         IF d1[g] # Absent THEN RMul(d1[g], factor) ELSE d1[g]])
        ELSE d1

\* raw_new_w without the clamp at 0
RawNewUnclamped(d, active, delta) == RAdd(W(d, active), delta)

\* raw_new_w = current_w + delta, clamped at 0
RawNew(d, active, delta) ==
    LET r == RAdd(W(d, active), delta)
    IN  IF RLt(r, Zero) THEN Zero ELSE r

AddOnVertex(d, active, delta, auto_normalize) ==
    IF auto_normalize THEN AddNormalize(d, active, RawNew(d, active, delta))
    ELSE AddAdditive(d, active, RawNew(d, active, delta))

ElastIdle == [op |-> "none", n |-> 0, pre |-> <<>>, targets |-> {},
              amount |-> <<>>, active |-> 0, auto_normalize |-> FALSE,
              aux |-> <<>>]

EditIdle == <<>>

InitEdit ==
    /\ \E d0 \in DvertChoices, dn \in NeighbourChoices :
          edit = [v \in EVerts |-> IF v = 0 THEN d0 ELSE dn]
    /\ elast = ElastIdle

EditAdd ==
    /\ elast.n < MaxEditOps
    /\ \E call \in AddCalls, active_index \in ActiveChoices,
          auto_normalize \in BOOLEAN :
        LET selected_verts == call.sel
            strength == call.strength
            fc == call.fc
            falloff_map ==
                IF fc.use
                THEN get_falloff_targets(EditEdges, selected_verts, fc.steps)
                ELSE [v \in selected_verts |-> One]
            target_verts == DOMAIN falloff_map
            delta == [v \in target_verts |->
                         IF fc.use THEN RMul(RMul(strength, falloff_map[v]), fc.ff)
                         ELSE strength]
        IN  /\ edit' = [v \in EVerts |->
                           IF v \in target_verts
                           THEN AddOnVertex(edit[v], active_index, delta[v],
                                            auto_normalize)
                           ELSE edit[v]]
            /\ elast' = [op |-> "add", n |-> elast.n + 1, pre |-> edit,
                         targets |-> target_verts, amount |-> delta,
                         active |-> active_index,
                         auto_normalize |-> auto_normalize, aux |-> <<>>]

\* C2: after an Add call with auto_normalize = False the total weight of
\* every target vertex is at most 1.0 + 1e-4.
C2_AddClamp ==
    (elast.op = "add" /\ ~elast.auto_normalize) =>
        \A v \in elast.targets : RLeq(Total(edit[v]), OnePlusEps)

\* a second additive call that pushed a vertex of total <= 1.0 past 1.0001
C2_Witness ==
    /\ elast.op = "add"
    /\ ~elast.auto_normalize
    /\ elast.n = 2
    /\ \E v \in elast.targets :
          /\ RLeq(Total(elast.pre[v]), One)
          /\ RLt(OnePlusEps, RAdd(Total(elast.pre[v]), elast.amount[v]))
          /\ Total(edit[v]) = One

C3_Premise(v) ==
    /\ Total(elast.pre[v]) = One
    /\ RLt(RawNew(elast.pre[v], elast.active, elast.amount[v]), One)

C3_TotalIsOne(v) ==
    /\ RLeq(RSub(One, Eps), Total(edit[v]))
    /\ RLeq(Total(edit[v]), OnePlusEps)

\* C3 as stated: an auto-normalizing Add with raw_new < 1.0 on a vertex of
\* total 1.0 leaves the total at 1.0.
C3_AddKeepsTotal ==
    (elast.op = "add" /\ elast.auto_normalize) =>
        \A v \in elast.targets : C3_Premise(v) => C3_TotalIsOne(v)

\* C3 amended: ... provided the other groups' weights sum to more than 1e-4
\* before the call.
C3_AddKeepsTotalWithOthers ==
    (elast.op = "add" /\ elast.auto_normalize) =>
        \A v \in elast.targets :
            (C3_Premise(v) /\ RLt(Eps, OthersSum(elast.pre[v], elast.active)))
                => C3_TotalIsOne(v)

C3_Witness ==
    /\ elast.op = "add"
    /\ elast.auto_normalize
    /\ \E v \in elast.targets :
          /\ C3_Premise(v)
          /\ RLt(Eps, OthersSum(elast.pre[v], elast.active))
          /\ RLt(elast.amount[v], Zero)
          /\ Keys(elast.pre[v]) = Groups
          /\ edit[v] # elast.pre[v]

InUnitRange(d) == \A g \in Keys(d) : RLeq(Zero, d[g]) /\ RLeq(d[g], One)

\* max(0, current + delta) for the active group of target v of the last call
C16_Raw(v) ==
    LET r == RAdd(W(elast.pre[v], elast.active), elast.amount[v])
    IN  IF RLt(r, Zero) THEN Zero ELSE r

\* C16: an Add call on weights in [0,1] leaves no weight of a target vertex
\* negative or above 1.0 + 1e-4, and the active group holds
\* raw = max(0, current + strength * f) as normalized by the mode: with
\* auto_normalize min(raw, 1), without it raw, divided by the vertex total
\* when that total exceeds 1.0001.
C16_AddInRange ==
    elast.op = "add" =>
        \A v \in elast.targets :
            InUnitRange(elast.pre[v]) =>
                /\ \A g \in Keys(edit[v]) :
                      RLeq(Zero, edit[v][g]) /\ RLeq(edit[v][g], OnePlusEps)
                /\ LET raw == C16_Raw(v)
                       total == RAdd(raw, OthersSum(elast.pre[v], elast.active))
                   IN  edit[v][elast.active] =
                           IF elast.auto_normalize
                           THEN (IF RLeq(One, raw) THEN One ELSE raw)
                           ELSE (IF RLt(OnePlusEps, total)
                                 THEN RDiv(raw, total) ELSE raw)

\* a negative strength that would take the active group below zero: it
\* ends at exactly 0 while another group is still on the vertex
C16_Witness ==
    /\ elast.op = "add"
    /\ \E v \in elast.targets :
          /\ InUnitRange(elast.pre[v])
          /\ RLt(RAdd(W(elast.pre[v], elast.active), elast.amount[v]), Zero)
          /\ edit[v][elast.active] = Zero
          /\ \E g \in Keys(edit[v]) : g # elast.active /\ RLt(Zero, edit[v][g])

\* C22: an auto-normalizing Add sets the active group to min(raw_new, 1.0);
\* with raw_new >= 1.0 no other group stays on the vertex; otherwise, when
\* the other groups' prior sum is above 1e-4, each is multiplied by the one
\* scale (1 - raw_new) / sum, so they sum to 1 - active; when that sum is
\* 1e-4 or less they are left as they are.
C22_AddRedistributes ==
    (elast.op = "add" /\ elast.auto_normalize) =>
        \A v \in elast.targets :
            LET raw == C16_Raw(v)
                others == Groups \ {elast.active}
                sum == OthersSum(elast.pre[v], elast.active)
            IN  IF RLeq(One, raw)
                THEN /\ edit[v][elast.active] = One
                     /\ \A g \in others : edit[v][g] = Absent
                ELSE /\ edit[v][elast.active] = raw
                     /\ IF RLt(Eps, sum)
                        THEN /\ \A g \in others :
                                   edit[v][g] =
                                       IF elast.pre[v][g] = Absent THEN Absent
                                       ELSE RMul(elast.pre[v][g],
                                                 RDiv(RSub(One, raw), sum))
                             /\ OthersSum(edit[v], elast.active) = RSub(One, raw)
                        ELSE \A g \in others : edit[v][g] = elast.pre[v][g]

\* a positive strength on a vertex with two other groups of different
\* weight: both shrink and keep their ratio
C22_Witness ==
    /\ elast.op = "add"
    /\ elast.auto_normalize
    /\ \E v \in elast.targets :
          /\ RLt(Zero, elast.amount[v])
          /\ RLt(C16_Raw(v), One)
          /\ \E g, h \in Groups \ {elast.active} :
                /\ elast.pre[v][g] # Absent /\ elast.pre[v][h] # Absent
                /\ RLt(elast.pre[v][h], elast.pre[v][g])
                /\ RLt(edit[v][g], elast.pre[v][g])
                /\ RMul(edit[v][g], elast.pre[v][h])
                      = RMul(edit[v][h], elast.pre[v][g])

\* the vertex total once the active group is set to raw_new
C23_Total(v) == RAdd(C16_Raw(v), OthersSum(elast.pre[v], elast.active))

\* C23: an Add without auto_normalize leaves every other group of a target
\* vertex exactly as it was (and the active group at raw_new) when the total
\* is at most 1.0001; above that, every group, the active one included, is
\* divided by the total, which becomes 1.0; vertices that are no targets
\* are not modified.
C23_AddConservative ==
    (elast.op = "add" /\ ~elast.auto_normalize) =>
        /\ \A v \in EVerts \ elast.targets : edit[v] = elast.pre[v]
        /\ \A v \in elast.targets :
              LET raw == C16_Raw(v)
                  total == C23_Total(v)
                  others == Groups \ {elast.active}
              IN  IF RLeq(total, OnePlusEps)
                  THEN /\ edit[v][elast.active] = raw
                       /\ \A g \in others : edit[v][g] = elast.pre[v][g]
                  ELSE /\ edit[v][elast.active] = RDiv(raw, total)
                       /\ \A g \in others :
                             edit[v][g] =
                                 IF elast.pre[v][g] = Absent THEN Absent
                                 ELSE RDiv(elast.pre[v][g], total)
                       /\ Total(edit[v]) = One

\* a first call that overshoots on one vertex, whose other group is scaled
\* down with the active one, while the other vertex is no target
C23_Witness ==
    /\ elast.op = "add"
    /\ ~elast.auto_normalize
    /\ elast.n = 1
    /\ elast.targets # EVerts
    /\ \E v \in elast.targets :
          /\ RLt(OnePlusEps, C23_Total(v))
          /\ \E g \in Groups \ {elast.active} :
                elast.pre[v][g] # Absent /\ RLt(edit[v][g], elast.pre[v][g])
          /\ Total(edit[v]) = One

----------------------------------------------------------------------------
(* Smooth.  smooth_vertex_all_groups is the per-vertex algorithm of the    *)
(* source; smooth_strided is the native routine both call sites use (it is *)
(* not in the repository's Python): it runs the same algorithm on the      *)
(* strided store with the store's capacity as the influence limit, target  *)
(* after target, in place.                                                 *)

\* self.c_stride / stride: slots per vertex in the strided store
STRIDE == 8

\* MAX_INFLUENCE of the Python smooth
MAX_INFLUENCE == 4

\* the store keeps the first STRIDE entries of the vertex, in iteration order
LoadStrided(d) ==
    Tab([g \in Groups |->
            IF d[g] # Absent /\ Cardinality({h \in Keys(d) : h < g}) < STRIDE
            THEN d[g] ELSE Absent])

\* what the write-back reads from the store: entries with value > 0.0001
ReadStrided(d) ==
    Tab([g \in Groups |-> IF d[g] # Absent /\ RLt(Eps, d[g]) THEN d[g] ELSE Absent])

RECURSIVE EdgeWeightSum(_)
EdgeWeightSum(nb) ==
    IF nb = {} THEN Zero
    ELSE LET e == CHOOSE x \in nb : TRUE
         IN  RAdd(e[2], EdgeWeightSum(nb \ {e}))

\* temp_group_sums[g]: the sum over the neighbours of g.weight * edge_w
RECURSIVE GroupSum(_, _, _)
GroupSum(st, nb, g) ==
    IF nb = {} THEN Zero
    ELSE LET e == CHOOSE x \in nb : TRUE
         IN  RAdd(RMul(W(st[e[1]], g), e[2]), GroupSum(st, nb \ {e}, g))

\* the `limit` heaviest entries of d (ties: lower group index first)
RECURSIVE TopGroups(_, _)
TopGroups(d, limit) ==
    IF limit = 0 \/ Keys(d) = {} THEN {}
    ELSE LET best == CHOOSE g \in Keys(d) :
                        \A h \in Keys(d) :
                            RLt(d[h], d[g]) \/ (d[h] = d[g] /\ g <= h)
         IN  {best} \cup TopGroups([d EXCEPT ![best] = Absent], limit - 1)

\* the blended, un-normalized weights of one vertex (temp_new_weights)
SmoothBlend(st, nb, v, factor) ==
    LET inv_total_edge == RInv(EdgeWeightSum(nb))
        inv_factor == RSub(One, factor)
        in_neighbours == {g \in DOMAIN st[v] : \E e \in nb : st[e[1]][g] # Absent}
        new_w(g) ==
            IF g \in in_neighbours
            THEN RAdd(RMul(W(st[v], g), inv_factor),
                      RMul(RMul(GroupSum(st, nb, g), inv_total_edge), factor))
            ELSE RMul(W(st[v], g), inv_factor)
    IN  Tab([g \in DOMAIN st[v] |->
                IF (g \in in_neighbours \/ st[v][g] # Absent) /\ RLt(Eps, new_w(g))
                THEN new_w(g) ELSE Absent])

\* smooth_vertex_all_groups without the total_edge_weight guard
SmoothVertexUnguarded(st, nb, v, factor, limit) ==
    IF nb = {} THEN st[v]
    ELSE LET blended == SmoothBlend(st, nb, v, factor)
             kept == TopGroups(blended, limit)
             total_final == SumOver(blended, kept)
         IN  IF RLt(<<1, 100000>>, total_final)
             THEN LET ratio == RInv(total_final)
                  IN  Tab([g \in DOMAIN st[v] |->
                              IF g \in kept THEN RMul(blended[g], ratio) ELSE Absent])
             ELSE st[v]

\* smooth_vertex_all_groups on the weights st, with nb the (neighbour, edge
\* weight) pairs of the vertex; returns the vertex's new weights
SmoothVertex(st, nb, v, factor, limit) ==
    IF nb = {} THEN st[v]
    ELSE IF RLeq(EdgeWeightSum(nb), <<1, 100000>>) THEN st[v]
    ELSE LET blended == SmoothBlend(st, nb, v, factor)
             kept == TopGroups(blended, limit)
             total_final == SumOver(blended, kept)
         IN  IF RLt(<<1, 100000>>, total_final)
             THEN LET ratio == RInv(total_final)
                  IN  Tab([g \in DOMAIN st[v] |->
                              IF g \in kept THEN RMul(blended[g], ratio) ELSE Absent])
             ELSE st[v]

\* the native smooth over the strided store: each target in turn, in place
RECURSIVE smooth_strided(_, _, _, _)
smooth_strided(st, adjacency, targets, factor) ==
    IF targets = {} THEN st
    ELSE LET v == CHOOSE x \in targets : \A y \in targets : x <= y
             st1 == [st EXCEPT ![v] = SmoothVertex(st, adjacency[v], v, factor,
                                                    STRIDE)]
         IN  smooth_strided(st1, adjacency, targets \ {v}, factor)

RECURSIVE SmoothIterations(_, _, _, _, _)
SmoothIterations(st, adjacency, targets, factor, iterations) ==
    IF iterations = 0 THEN st
    ELSE SmoothIterations(smooth_strided(st, adjacency, targets, factor),
                          adjacency, targets, factor, iterations - 1)

----------------------------------------------------------------------------
(* WYNN_OT_smooth_weights.execute                                          *)

\* e.calc_length() of the edit mesh's edges
EditEdgeLength == 1

\* invocations of Smooth: selection, factor, iterations, falloff properties
SmoothCalls ==
    {[sel |-> {0}, factor |-> Half, iterations |-> 1, fc |-> NoFalloff],
     [sel |-> {0}, factor |-> One, iterations |-> 2, fc |-> NoFalloff],
     [sel |-> EVerts, factor |-> Half, iterations |-> 1, fc |-> NoFalloff],
     [sel |-> {0}, factor |-> One, iterations |-> 1, fc |-> NarrowFalloff],
     [sel |-> {NumEVerts - 1}, factor |-> Half, iterations |-> 1, fc |-> WideFalloff]}

\* the mini-adjacency over the working set: neighbours[v] = (other, w) pairs
LocalAdjacency(working_set) ==
    Tab([v \in working_set |->
            {<<other, EdgeWeight(EditEdgeLength)>> :
                other \in {o \in working_set : {v, o} \in EditEdges}}])

\* step 6: Final = Lerp(Original, Smoothed, final_blend), or the smoothed
\* weights when final_blend >= 0.99
BlendBack(orig, smoothed_map, final_blend) ==
    IF RLeq(<<99, 100>>, final_blend) THEN smoothed_map
    ELSE Tab([g \in Groups |->
                IF orig[g] = Absent /\ smoothed_map[g] = Absent THEN Absent
                ELSE LET w_final == RAdd(RMul(W(orig, g), RSub(One, final_blend)),
                                         RMul(W(smoothed_map, g), final_blend))
                     IN  IF RLt(Eps, w_final) THEN w_final ELSE Absent])

EditSmooth ==
    /\ elast.n < MaxEditOps
    /\ \E call \in SmoothCalls :
        LET fc == call.fc
            falloff_map ==
                IF fc.use
                THEN get_falloff_targets(EditEdges, call.sel, fc.steps)
                ELSE [v \in call.sel |-> One]
            target_verts == DOMAIN falloff_map
            working_set ==
                target_verts \cup
                {o \in EVerts : \E v \in target_verts : {v, o} \in EditEdges}
            adjacency == LocalAdjacency(working_set)
            st0 == Tab([v \in working_set |-> LoadStrided(edit[v])])
            st == SmoothIterations(st0, adjacency, target_verts, call.factor,
                                   call.iterations)
            final_blend == [v \in target_verts |-> RMul(falloff_map[v], fc.ff)]
        IN  /\ edit' = [v \in EVerts |->
                           IF v \in target_verts
                           THEN BlendBack(edit[v], ReadStrided(st[v]),
                                          final_blend[v])
                           ELSE edit[v]]
            /\ elast' = [op |-> "smooth", n |-> elast.n + 1, pre |-> edit,
                         targets |-> target_verts, amount |-> final_blend,
                         active |-> 0, auto_normalize |-> FALSE,
                         aux |-> [v \in target_verts |-> ReadStrided(st[v])]]

HasPositive(d) == \E g \in Keys(d) : RLt(Zero, d[g])

NearOne(x) == RLeq(RSub(One, Eps), x) /\ RLeq(x, OnePlusEps)

\* C4: after an edit-mode Smooth every target vertex that keeps a positive
\* weight has weights summing to 1.0 within 1e-4.
C4_SmoothConserves ==
    elast.op = "smooth" =>
        \A v \in elast.targets : HasPositive(edit[v]) => NearOne(Total(edit[v]))

----------------------------------------------------------------------------
(* WYNN_OT_smear_perf_monitor: the modal weight brush                      *)

NumBVerts == 2
MaxPresses == 2
MaxStrokes == 2
CapExtra == 1
CapStrokes == 0
MaxDenominator == 1000

\* the undo stack keeps at most 20 snapshots
UNDO_LIMIT == 20

BVerts == 0 .. (NumBVerts - 1)

\* the brushed mesh: vertices on a line, one unit apart, joined in a path
BrushEdges == [k \in 1 .. (NumBVerts - 1) |-> <<k - 1, k>>]

\* c_adj_starts / c_adj_indices / c_adj_weights, read per vertex
BrushAdjacency ==
    LET csr == BuildAdjacency(NumBVerts, BrushEdges, "line")
    IN  Tab([v \in BVerts |->
                {csr.entries[k] : k \in (csr.starts[v + 1] + 1) .. csr.starts[v + 2]}])

\* weights of vertex 0 when the brush is invoked
BrushChoices ==
    {Dv(<<1, 4>>, <<3, 4>>, Absent),
     Dv(Eps, <<9999, 10000>>, Absent),
     Dv(Absent, Half, Half)}

\* weights of the other vertices
BrushNeighbourChoices == {Dv(Half, Half, Absent)}

\* the native library found by invoke: none, one without
\* apply_vertex_logic_strided, or the current one
DllKinds == {"none", "old", "new"}

\* where the ray cast puts the cursor (x on the line of vertices) and the
\* world radius of the brush
Pointers ==
    {[hit |-> FALSE, x |-> Zero, r |-> One],
     [hit |-> TRUE, x |-> Zero, r |-> One],
     [hit |-> TRUE, x |-> Zero, r |-> <<2, 1>>]}

\* context.scene.wynn_brush_strength
BrushStrengths == {Half, One}

\* the events the modal handler tells apart
Events ==
    {[type |-> "LEFTMOUSE", value |-> "PRESS", ctrl |-> FALSE, shift |-> FALSE],
     [type |-> "LEFTMOUSE", value |-> "PRESS", ctrl |-> TRUE, shift |-> FALSE],
     [type |-> "LEFTMOUSE", value |-> "PRESS", ctrl |-> FALSE, shift |-> TRUE],
     [type |-> "LEFTMOUSE", value |-> "PRESS", ctrl |-> TRUE, shift |-> TRUE],
     [type |-> "LEFTMOUSE", value |-> "RELEASE", ctrl |-> FALSE, shift |-> FALSE],
     [type |-> "MOUSEMOVE", value |-> "NOTHING", ctrl |-> FALSE, shift |-> FALSE],
     [type |-> "MOUSEMOVE", value |-> "NOTHING", ctrl |-> TRUE, shift |-> FALSE],
     [type |-> "MOUSEMOVE", value |-> "NOTHING", ctrl |-> FALSE, shift |-> TRUE],
     [type |-> "Z", value |-> "PRESS", ctrl |-> TRUE, shift |-> FALSE],
     [type |-> "F", value |-> "PRESS", ctrl |-> FALSE, shift |-> FALSE],
     [type |-> "F", value |-> "PRESS", ctrl |-> FALSE, shift |-> TRUE],
     [type |-> "RET", value |-> "PRESS", ctrl |-> FALSE, shift |-> FALSE],
     [type |-> "ESC", value |-> "PRESS", ctrl |-> FALSE, shift |-> FALSE]}

IsUndoEvent(ev) == ev.type = "Z" /\ ev.value = "PRESS" /\ ev.ctrl

RAbs(a) == IF RLt(a, Zero) THEN RNeg(a) ELSE a

\* kd_visual.find_range(cursor_loc, world_radius): (index, dist) pairs
FindRange(p) ==
    {<<v, RAbs(RSub(Rat(v, 1), p.x))>> :
        v \in {u \in BVerts : RLeq(RAbs(RSub(Rat(u, 1), p.x)), p.r)}}

\* falloff = 1.0 - dist_sq * inv_radius_sq
QuadFalloff(dist, radius) ==
    LET radius_sq == RMul(radius, radius)
        inv_radius_sq == IF RLt(Zero, radius_sq) THEN RInv(radius_sq) ELSE Zero
    IN  RSub(One, RMul(RMul(dist, dist), inv_radius_sq))

\* the (index, strength * falloff) pairs of the vertices with falloff > 0
StrokeTargets(p, strength) ==
    {<<f[1], RMul(strength, QuadFalloff(f[2], p.r))>> :
        f \in {x \in FindRange(p) : RLt(Zero, QuadFalloff(x[2], p.r))}}

\* get_source_weight(obj, prev_cursor_loc, idx_active, 'NEAREST'); src is the
\* vertex nearest to the previous cursor, -1 when there is no previous cursor
SourceWeight(m, src, group_idx) ==
    IF src = -1 THEN <<-1, 1>> ELSE W(m[src], group_idx)

\* the native apply_vertex_logic_strided on one vertex's slots
\* (mode 1: harden the active group; mode 0: pull it towards smear_val)
ApplyVertexLogic(d, factor, active_group, mode, smear_val) ==
    IF active_group = -1 THEN d
    ELSE IF mode = 1
         THEN IF d[active_group] = Absent THEN d
              ELSE [d EXCEPT ![active_group] = get_harden_target(@, factor)]
         ELSE IF RLt(smear_val, Zero) THEN d
              ELSE LET w == W(d, active_group)
                       new_w == RAdd(w, RMul(RSub(smear_val, w), factor))
                   IN  IF d[active_group] = Absent /\ ~RLt(Zero, new_w) THEN d
                       ELSE [d EXCEPT ![active_group] = new_w]

\* "3. Apply Back to Blender": one target vertex's groups after the write-back
WriteBack(old, slots) ==
    LET new_map == ReadStrided(slots)
    IN  Tab([g \in Groups |->
                IF new_map[g] = Absent THEN Absent
                ELSE IF old[g] = Absent THEN new_map[g]
                ELSE IF RLt(<<1, 100000>>, RAbs(RSub(old[g], new_map[g])))
                     THEN new_map[g] ELSE old[g]])

\* paint_stroke: the mesh, the store and whether the call raised
PaintStroke(m, st, ss, ev, p, strength, src) ==
    LET same == [mesh |-> m, store |-> st, raised |-> FALSE]
        targets == StrokeTargets(p, strength)
        tverts == {t[1] : t \in targets}
        factor_of(v) == (CHOOSE t \in targets : t[1] = v)[2]
        is_blur == ev.shift
        is_harden == ev.ctrl
        has_new_api == ss.dll = "new"
        use_cpp == ss.dll # "none" /\ (is_blur \/ has_new_api)
    IN  IF ~p.hit THEN same
        ELSE IF FindRange(p) = {} THEN same
        ELSE IF use_cpp
        THEN IF targets = {} THEN same
             ELSE LET st1 ==
                          IF is_blur
                          THEN smooth_strided(st, BrushAdjacency, tverts,
                                              RMul(strength, Half))
                          ELSE Tab([v \in BVerts |->
                                  IF v \in tverts
                                  THEN ApplyVertexLogic(
                                           st[v], factor_of(v), ss.active,
                                           IF is_harden THEN 1 ELSE 0,
                                           IF is_harden THEN <<-1, 1>>
                                           ELSE SourceWeight(m, src, ss.active))
                                  ELSE st[v]])
                  IN  [mesh |-> Tab([v \in BVerts |->
                                   IF v \in tverts THEN WriteBack(m[v], st1[v])
                                   ELSE m[v]]),
                       store |-> st1, raised |-> FALSE]
        ELSE IF targets = {} THEN same
        ELSE IF is_blur
             \* smooth_vertex_all_groups with self.adjacency = {}: no neighbours
             THEN [mesh |-> Tab([v \in BVerts |->
                                   IF v \in tverts
                                   THEN SmoothVertex(m, {}, v,
                                                     RMul(factor_of(v), Half),
                                                     MAX_INFLUENCE)
                                   ELSE m[v]]),
                   store |-> st, raised |-> FALSE]
             \* self.apply_logic does not exist: AttributeError
             ELSE [mesh |-> m, store |-> st, raised |-> TRUE]

\* save_undo_snapshot: {idx_active: {v.index: weight or 0.0}}
Snapshot(m, idx_active) ==
    [group |-> idx_active, weights |-> Tab([v \in BVerts |-> W(m[v], idx_active)])]

\* a push that drops the newest snapshot when the stack is full
PushUndoDropNewest(stack, snapshot) ==
    IF Len(stack) + 1 > UNDO_LIMIT THEN stack ELSE Append(stack, snapshot)

\* self.undo_stack.append(snapshot); if len > 20: pop(0)
PushUndo(stack, snapshot) ==
    LET s1 == Append(stack, snapshot)
    IN  IF Len(s1) > UNDO_LIMIT THEN Tail(s1) ELSE s1

\* snapshot = self.undo_stack.pop()
PopUndo(stack) ==
    [snapshot |-> stack[Len(stack)], rest |-> SubSeq(stack, 1, Len(stack) - 1)]

\* an undo that rewrites the whole vertex: the snapshotted group restored,
\* every other group removed
ApplySnapshotWholeVertex(m, snapshot) ==
    Tab([v \in BVerts |->
            Tab([g \in Groups |->
                    IF g = snapshot.group /\ RLt(Eps, snapshot.weights[v])
                    THEN snapshot.weights[v] ELSE Absent])])

\* perform_undo's loop: group.add([v], w, 'REPLACE') or group.remove([v])
ApplySnapshot(m, snapshot) ==
    Tab([v \in BVerts |->
            [m[v] EXCEPT ![snapshot.group] =
                IF RLt(Eps, snapshot.weights[v]) THEN snapshot.weights[v]
                ELSE Absent]])

BrushIdle == <<>>

\* the edit-mode operators' variables, which the brush leaves alone
operator_vars == <<harden, falloff, adj, edit, elast, unit>>

SessionIdle == [dll |-> "none", active |-> -1, alive |-> FALSE, strokes |-> 0,
                max_presses |-> 0, max_strokes |-> 0, last |-> "none"]

\* the state invoke() leaves: the store holds the first STRIDE groups of each
\* vertex, the stack is empty, nothing is being painted
InitBrush(max_presses, max_strokes, dlls, choices) ==
    /\ \E d0 \in choices, dn \in BrushNeighbourChoices,
          kind \in dlls :
          /\ mesh = Tab([v \in BVerts |->
                           IF d0 = NoWeights THEN NoWeights
                           ELSE IF v = 0 THEN d0 ELSE dn])
          /\ session = [dll |-> kind,
                        active |-> IF d0 = NoWeights THEN -1 ELSE 0,
                        alive |-> TRUE, strokes |-> 0,
                        max_presses |-> max_presses,
                        max_strokes |-> max_strokes, last |-> "invoke"]
    /\ store = Tab([v \in BVerts |-> LoadStrided(mesh[v])])
    /\ undo_stack = <<>>
    /\ hist = <<>>
    /\ painting = FALSE
    /\ nav = "none"

\* a perform_undo without the empty-stack check: list.pop() raises IndexError
perform_undo_unguarded(m, stack) ==
    IF stack = <<>>
    THEN [mesh |-> m, stack |-> stack, popped |-> FALSE, raised |-> TRUE]
    ELSE LET p == PopUndo(stack)
         IN  [mesh |-> ApplySnapshot(m, p.snapshot), stack |-> p.rest,
              popped |-> TRUE, raised |-> FALSE]

\* perform_undo: "Nothing to Undo" on an empty stack, else pop and apply
perform_undo(m, stack) ==
    IF stack = <<>>
    THEN [mesh |-> m, stack |-> stack, popped |-> FALSE, raised |-> FALSE]
    ELSE LET p == PopUndo(stack)
         IN  [mesh |-> ApplySnapshot(m, p.snapshot), stack |-> p.rest,
              popped |-> TRUE, raised |-> FALSE]

\* Ctrl+Z: perform_undo(context.active_object)
ModalUndo ==
    /\ session.alive
    /\ LET r == perform_undo(mesh, undo_stack)
       IN  /\ mesh' = r.mesh
           /\ undo_stack' = r.stack
           /\ hist' = IF r.popped THEN SubSeq(hist, 1, Len(hist) - 1) ELSE hist
           /\ session' = [session EXCEPT
                             !.alive = ~r.raised,
                             !.last = IF r.popped THEN "event"
                                      ELSE "undo on empty stack"]
    /\ UNCHANGED <<store, painting, nav, operator_vars>>

\* the navigation blocks of modal() on one event: LEFTMOUSE (any value) and
\* RET end the navigation, every event returns before the painting code
NavigationHandles(ev) ==
    /\ session.alive
    /\ nav # "none"
    /\ ~IsUndoEvent(ev)
    /\ nav' = IF ev.type \in {"LEFTMOUSE", "RET"} THEN "none" ELSE nav
    /\ session' = [session EXCEPT !.last = "event"]
    /\ UNCHANGED <<mesh, store, undo_stack, hist, painting, operator_vars>>

\* an event while F / Shift+F navigation is active
ModalNavigating ==
    \E ev \in Events : NavigationHandles(ev)

\* F / Shift+F starts radius / strength navigation
ModalStartNavigation ==
    /\ session.alive
    /\ nav = "none"
    /\ \E ev \in Events :
          /\ ev.type = "F" /\ ev.value = "PRESS"
          /\ nav' = IF ev.shift THEN "strength" ELSE "radius"
          /\ session' = [session EXCEPT !.last = "event"]
    /\ UNCHANGED <<mesh, store, undo_stack, hist, painting, operator_vars>>

\* the weights the model follows: fractions with a bounded denominator
Representable(m) ==
    \A v \in BVerts, g \in Groups : m[v][g][2] <= MaxDenominator

\* prev_cursor_loc is the cursor of the press or of the last stroke, so the
\* smear source is some vertex, or none; harden and blur do not read it
SmearSources(ev) ==
    IF ev.shift \/ ev.ctrl THEN {-1} ELSE BVerts \cup {-1}

\* the tail of modal(): "if self.painting: self.paint_stroke(context)"
StrokeIfPainting(is_painting, ss, ev) ==
    IF ~is_painting
    THEN /\ session' = [ss EXCEPT !.last = "event"]
         /\ UNCHANGED <<mesh, store>>
    ELSE \E p \in Pointers :
            IF ~p.hit \/ StrokeTargets(p, One) = {}
            THEN /\ session' = [ss EXCEPT !.last = "event"]
                 /\ UNCHANGED <<mesh, store>>
            ELSE /\ ss.strokes < ss.max_strokes
                 /\ \E strength \in BrushStrengths, src \in SmearSources(ev) :
                       \E r \in {PaintStroke(mesh, store, ss, ev, p, strength, src)} :
                           /\ Representable(r.mesh) /\ Representable(r.store)
                           /\ mesh' = r.mesh
                           /\ store' = r.store
                           /\ session' = [ss EXCEPT !.alive = ~r.raised,
                                                    !.strokes = @ + 1,
                                                    !.last = "event"]

\* LEFTMOUSE PRESS: snapshot, start painting, first stroke
ModalLeftPress ==
    /\ session.alive
    /\ nav = "none"
    /\ Len(hist) < session.max_presses
    /\ \E ev \in Events :
          /\ ev.type = "LEFTMOUSE" /\ ev.value = "PRESS"
          /\ ~(ev.ctrl /\ ev.shift)
          /\ IF session.active = -1
             THEN UNCHANGED <<undo_stack, hist>>
             ELSE /\ undo_stack' = PushUndo(undo_stack,
                                            Snapshot(mesh, session.active))
                  /\ hist' = Append(hist, [mesh |-> mesh,
                                           group |-> session.active])
          /\ painting' = TRUE
          /\ StrokeIfPainting(TRUE, session, ev)
    /\ UNCHANGED <<nav, operator_vars>>

\* LEFTMOUSE RELEASE outside navigation
ModalLeftRelease ==
    /\ session.alive
    /\ nav = "none"
    /\ painting' = FALSE
    /\ session' = [session EXCEPT !.last = "event"]
    /\ UNCHANGED <<mesh, store, undo_stack, hist, nav, operator_vars>>

\* any other event that reaches the end of modal()
ModalMove ==
    /\ session.alive
    /\ nav = "none"
    /\ \E ev \in Events :
          /\ ev.type = "MOUSEMOVE"
          /\ StrokeIfPainting(painting, session, ev)
    /\ UNCHANGED <<undo_stack, hist, painting, nav, operator_vars>>

\* ESC ends the operator
ModalEsc ==
    /\ session.alive
    /\ nav = "none"
    /\ session' = [session EXCEPT !.alive = FALSE, !.last = "event"]
    /\ UNCHANGED <<mesh, store, undo_stack, hist, painting, nav, operator_vars>>

NextBrush ==
    \/ ModalUndo
    \/ ModalNavigating
    \/ ModalStartNavigation
    \/ ModalLeftPress
    \/ ModalLeftRelease
    \/ ModalMove
    \/ ModalEsc

\* C1: an undo puts back, for every vertex, exactly the weight the vertex had
\* in the snapshotted group when the snapshot was taken (none or 0 where the
\* vertex did not carry the group), whatever the strokes in between did
C1_UndoRestores ==
    [][(undo_stack # <<>> /\ ModalUndo) =>
           LET taken == hist[Len(hist)]
           IN  \A v \in BVerts :
                   W(mesh'[v], taken.group) = W(taken.mesh[v], taken.group)]_vars

\* the stack is the most recent part of the history of snapshots not undone
StackIsRecentHistory ==
    /\ Len(undo_stack) <= UNDO_LIMIT
    /\ Len(undo_stack) <= Len(hist)
    /\ \A k \in 1 .. Len(undo_stack) :
          LET h == hist[Len(hist) - Len(undo_stack) + k]
          IN  /\ undo_stack[k].group = h.group
              /\ \A v \in BVerts :
                     undo_stack[k].weights[v] = W(h.mesh[v], h.group)

\* a stroke start adds one snapshot, unless that would make 21
PushKeepsTheRest ==
    [][Len(hist') > Len(hist) =>
           Len(undo_stack') =
               IF Len(undo_stack) < UNDO_LIMIT THEN Len(undo_stack) + 1
               ELSE UNDO_LIMIT]_vars

\* C8: the undo stack never holds more than 20 snapshots; they are the most
\* recent snapshots not undone, in push order, and a push onto a full stack
\* discards only the oldest
C8_BoundedUndo == []StackIsRecentHistory /\ PushKeepsTheRest

C8_Witness ==
    /\ Len(undo_stack) = UNDO_LIMIT
    /\ Len(hist) > UNDO_LIMIT
    /\ hist[1].mesh # hist[Len(hist)].mesh

\* C9: Ctrl+Z with an empty undo stack changes no weight, leaves the stack
\* empty and does not end the operator with an error
C9_UndoOnEmptyIsNoOp ==
    [][(undo_stack = <<>> /\ ModalUndo) =>
           /\ mesh' = mesh
           /\ store' = store
           /\ undo_stack' = <<>>
           /\ session'.alive]_vars

C9_Witness ==
    /\ session.last = "undo on empty stack"
    /\ session.alive
    /\ undo_stack = <<>>
    /\ \E v \in BVerts : Keys(mesh[v]) # {}

\* a stroke that went through the Python fallback without raising: with no
\* library loaded that is a blur stroke
FallbackBlurStroke ==
    /\ session.dll = "none"
    /\ session'.strokes = session.strokes + 1
    /\ session'.alive

\* C18: a blur stroke blends each target vertex towards the edge-weighted
\* mean of its mesh neighbours, so on a mesh whose two joined vertices
\* carry different weights the stroke changes the weights of its targets.
C18_BlurBlends ==
    [][(FallbackBlurStroke /\ mesh[0] # mesh[1]) => mesh' # mesh]_vars

\* C24: undo is last-in first-out over several levels: each Ctrl+Z on a
\* non-empty stack removes exactly the newest snapshot, the older ones
\* staying in push order, and leaves the snapshotted group's weight on
\* every vertex at its value just before the stroke that snapshot preceded,
\* so j undos in a row take the group back j strokes.
C24_UndoIsLifo ==
    [][(undo_stack # <<>> /\ ModalUndo) =>
           /\ undo_stack' = SubSeq(undo_stack, 1, Len(undo_stack) - 1)
           /\ hist' = SubSeq(hist, 1, Len(hist) - 1)
           /\ LET before == hist[Len(hist)]
              IN  \A v \in BVerts :
                      W(mesh'[v], before.group) = W(before.mesh[v], before.group)]_vars

\* C25: every LEFTMOUSE press that starts painting pushes exactly one
\* snapshot, taken from the weights as they are before the stroke, whatever
\* the brush mode and whether or not the object has an active group.
C25_SnapshotBeforeStroke ==
    [][ModalLeftPress =>
           /\ Len(undo_stack') =
                  IF Len(undo_stack) < UNDO_LIMIT THEN Len(undo_stack) + 1
                  ELSE UNDO_LIMIT
           /\ session.active # -1 =>
                  undo_stack'[Len(undo_stack')] = Snapshot(mesh, session.active)]_vars

\* the weights of a vertex that count: entries with value > 0.0001
Significant(d) ==
    Tab([g \in Groups |-> IF d[g] # Absent /\ RLt(Eps, d[g]) THEN d[g] ELSE Absent])

\* the store and the mesh carry the same significant weights on every vertex
StoreMatchesMesh(st, m) ==
    \A v \in BVerts : Significant(st[v]) = Significant(m[v])

\* C27: after any sequence of strokes and undos in a session, the store's
\* entries with value > 1e-4 equal the mesh's vertex-group weights on every
\* vertex, so a stroke after an undo starts from the restored weights.
C27_StoreMatchesMesh ==
    StoreMatchesMesh(store, mesh)

\* C28: an undo changes, on every vertex, only the weight of the group
\* recorded in the popped snapshot; the weights of all other groups stay
\* exactly as they were before the undo.
C28_UndoTouchesOnlySnapshotGroup ==
    [][ModalUndo =>
           \A v \in BVerts : \A g \in Groups :
               (undo_stack = <<>> \/ g # undo_stack[Len(undo_stack)].group)
                   => mesh'[v][g] = mesh[v][g]]_vars

\* an undone stroke whose changes to another group are still on the mesh:
\* every press was undone, yet a vertex carries in a group other than the
\* active one a weight no mesh starts with, the one the stroke left in the
\* store
C28_Witness ==
    /\ session.alive /\ session.active # -1
    /\ session.strokes >= 1 /\ undo_stack = <<>>
    /\ \E v \in BVerts : \E g \in Groups \ {session.active} :
          /\ mesh[v][g] # Absent
          /\ mesh[v][g] = store[v][g]
          /\ \A d \in BrushChoices \cup BrushNeighbourChoices : mesh[v][g] # d[g]
          /\ mesh[v][session.active] # store[v][session.active]

ReleaseEvent ==
    [type |-> "LEFTMOUSE", value |-> "RELEASE", ctrl |-> FALSE, shift |-> FALSE]

\* C29: once a LEFTMOUSE RELEASE has been handled the painting flag is
\* false, also when the release arrives while radius or strength
\* navigation is active.
C29_ReleaseStopsPainting ==
    [][(ModalLeftRelease \/ NavigationHandles(ReleaseEvent)) => ~painting']_vars

\* C30: without the native library, or with one that lacks
\* apply_vertex_logic_strided, a stroke completes without raising an error.
C30_FallbackStrokeCompletes ==
    [][((ModalLeftPress \/ ModalMove) /\ session.dll \in {"none", "old"})
           => session'.alive]_vars

----------------------------------------------------------------------------
(* WYNN_OT_harden_weights.execute                                          *)

\* invocations of Harden: selection, factor property, falloff properties
HardenCalls ==
    {[sel |-> {0}, factor |-> One, fc |-> NoFalloff],
     [sel |-> {0}, factor |-> Half, fc |-> NoFalloff],
     [sel |-> EVerts, factor |-> One, fc |-> NoFalloff],
     [sel |-> {0}, factor |-> One, fc |-> WideFalloff],
     [sel |-> {0}, factor |-> Half, fc |-> NarrowFalloff]}

\* the group Harden works on: any group of the object, whether or not the
\* target vertices carry it
HardenActiveChoices == Groups

\* c_target_factors[i]
HardenTargetFactor(call, local_factor) ==
    IF call.fc.use THEN RMul(RMul(local_factor, call.factor), call.fc.ff)
    ELSE call.factor

\* one target vertex: fill its 8 slots, run the native mode 1 on them, then
\* dvert.clear() and write the slots with g >= 0 and w > 0.0001 back
HardenOnVertex(d, active_index, factor) ==
    ReadStrided(ApplyVertexLogic(LoadStrided(d), factor, active_index, 1, Zero))

EditHarden ==
    /\ elast.n < MaxEditOps
    /\ \E call \in HardenCalls, active_index \in HardenActiveChoices,
          dll \in DllKinds :
        LET fc == call.fc
            falloff_map ==
                IF fc.use
                THEN get_falloff_targets(EditEdges, call.sel, fc.steps)
                ELSE [v \in call.sel |-> call.factor]
            target_verts == DOMAIN falloff_map
            factors == [v \in target_verts |->
                           HardenTargetFactor(call, falloff_map[v])]
        IN  IF dll # "new"
            THEN \* load_dll() found nothing, or the library lacks the routine
                 /\ edit' = edit
                 /\ elast' = [op |-> "cancelled", n |-> elast.n + 1, pre |-> edit,
                              targets |-> target_verts, amount |-> factors,
                              active |-> active_index, auto_normalize |-> FALSE,
                              aux |-> dll]
            ELSE /\ edit' = [v \in EVerts |->
                                IF v \in target_verts
                                THEN HardenOnVertex(edit[v], active_index,
                                                    factors[v])
                                ELSE edit[v]]
                 /\ elast' = [op |-> "harden", n |-> elast.n + 1, pre |-> edit,
                              targets |-> target_verts, amount |-> factors,
                              active |-> active_index, auto_normalize |-> FALSE,
                              aux |-> dll]

\* C13: after Harden every group of a target vertex other than the active
\* group is still present with exactly the weight it had before the call.
C13_HardenTouchesOnlyActive ==
    elast.op = "harden" =>
        \A v \in elast.targets : \A g \in Groups \ {elast.active} :
            edit[v][g] = elast.pre[v][g]

\* C21: when the active group is absent on a target vertex, Harden leaves
\* the vertex without an entry for it and with the same set of groups as
\* before the call.
C21_HardenAddsNoEntry ==
    elast.op = "harden" =>
        \A v \in elast.targets :
            elast.pre[v][elast.active] = Absent =>
                /\ edit[v][elast.active] = Absent
                /\ Keys(edit[v]) = Keys(elast.pre[v])

\* C20: the factor Harden hands to the native routine for each target
\* vertex (c_target_factors) lies in [0,1] for every admissible factor,
\* falloff_factor and falloff_steps.
C20_BlendFactorInRange ==
    elast.op = "harden" =>
        \A v \in elast.targets :
            RLeq(Zero, elast.amount[v]) /\ RLeq(elast.amount[v], One)

----------------------------------------------------------------------------
(* Per-vertex routines called on their own                                  *)

UnitIdle == [op |-> "none", pc |-> "idle"]

----------------------------------------------------------------------------
(* The strided store's population loop (invoke, and Smooth's working set)   *)

MaxGroupEntries == 9

\* weights a vertex group entry can carry
EntryWeights == {<<1, 4>>, <<3, 4>>}

\* v.groups / dvert.items() of one vertex, in iteration order: the k-th
\* entry is (group k - 1, weight)
EntryLists ==
    UNION {{[k \in 1 .. n |-> <<k - 1, ws[k]>>] : ws \in [1 .. n -> EntryWeights]} :
              n \in 0 .. MaxGroupEntries}

\* a slot the memset left: index -1 (0xFFFFFFFF), value 0.0
Sentinel == <<-1, Zero>>

\* for k, g in enumerate(v.groups): if k >= c_stride: break; slot k = g
PopulateStore(entries) ==
    [k \in 1 .. STRIDE |-> IF k <= Len(entries) THEN entries[k] ELSE Sentinel]

InitPopulate ==
    unit \in {[op |-> "populate", pc |-> "call", entries |-> e, slots |-> <<>>] :
                 e \in EntryLists}

Populate ==
    /\ unit.op = "populate" /\ unit.pc = "call"
    /\ unit' = [unit EXCEPT !.pc = "done", !.slots = PopulateStore(unit.entries)]

UsedSlots == {k \in 1 .. Len(unit.slots) : unit.slots[k] # Sentinel}

Min(a, b) == IF a < b THEN a ELSE b

\* C12: the store built for a vertex never has more than STRIDE used slots,
\* every used slot is one of the vertex's entries, min(n, STRIDE) of the n
\* entries are stored, and no entry left out is heavier than an entry
\* stored: the slots hold the STRIDE highest-weight entries.
C12_StoreKeepsHeaviest ==
    (unit.op = "populate" /\ unit.pc = "done") =>
        LET stored == {unit.slots[k] : k \in UsedSlots}
            supplied == {unit.entries[k] : k \in 1 .. Len(unit.entries)}
        IN  /\ Cardinality(UsedSlots) <= STRIDE
            /\ stored \subseteq supplied
            /\ Cardinality(stored) = Min(Len(unit.entries), STRIDE)
            /\ \A e \in supplied \ stored : \A k \in stored : RLeq(e[2], k[2])

----------------------------------------------------------------------------
(* smooth_vertex_all_groups called on one vertex                           *)

NumSmoothGroups == 5
MaxSmoothCalls == 2

\* vertex 0 is smoothed; vertices 1 and 2 are the ones its neighbour list
\* may name
SmoothVerts == 0 .. 2

\* the weights ws[1], ws[2], ... on groups 0, 1, ...
Dg(ws) ==
    Tab([g \in 0 .. (NumSmoothGroups - 1) |->
            IF g + 1 <= Len(ws) THEN ws[g + 1] ELSE Absent])

\* vertex.groups of the smoothed vertex
SelfChoices ==
    {Dg(<<(<<1, 4>>), (<<3, 4>>)>>),
     Dg(<<(<<1, 5>>), (<<1, 5>>), (<<1, 5>>), (<<1, 5>>), (<<1, 5>>)>>),
     Dg(<<(<<9999, 10000>>), Eps>>),
     Dg(<<Half, (<<1, 4>>), (<<1, 4>>)>>),
     Dg(<<One>>)}

\* n_v.groups of a neighbour that differs from the smoothed vertex
OtherChoices ==
    {Dg(<<Half, Half>>),
     Dg(<<Absent, Absent, Absent, Half, Half>>)}

\* self.adjacency.get(vertex.index): (n_idx, edge_w) pairs, edge_w being
\* 1/(dist + 0.0001); 1/200000 is an edge of length 199999.9999
NeighbourLists ==
    {{},
     {<<1, One>>},
     {<<1, One>>, <<2, Half>>},
     {<<1, <<1, 200000>> >>},
     {<<1, <<1, 200000>> >>, <<2, <<1, 200000>> >>}}

SmoothFactors == {Zero, Half, One}

\* the total_edge_weight that 1.0 / total_edge_weight divides by, Absent
\* when the routine returns before the division
SmoothDivisor(nb) ==
    IF nb = {} THEN Absent
    ELSE IF RLeq(EdgeWeightSum(nb), <<1, 100000>>) THEN Absent
    ELSE EdgeWeightSum(nb)

\* smooth_vertex_all_groups(vertices, vertex_groups, vertex, factor)
smooth_vertex_all_groups(st, nb, v, factor) ==
    SmoothVertex(st, nb, v, factor, MAX_INFLUENCE)

InitSmoothVertex ==
    \E d0 \in SelfChoices, nb \in NeighbourLists :
        \E d1 \in OtherChoices \cup {d0}, d2 \in OtherChoices \cup {d0} :
            unit = [op |-> "smooth_vertex", pc |-> "call", n |-> 0,
                    verts |-> [v \in SmoothVerts |->
                                  CASE v = 0 -> d0 [] v = 1 -> d1 [] OTHER -> d2],
                    nb |-> nb, factor |-> Zero, divisor |-> Absent,
                    pre |-> d0, first |-> d0]

\* the weights the model follows through repeated calls: fractions with a
\* bounded denominator
SmoothRepresentable(d) == \A g \in DOMAIN d : d[g][2] <= MaxDenominator

SmoothVertexCall ==
    /\ unit.op = "smooth_vertex" /\ unit.n < MaxSmoothCalls
    /\ unit.n = 0 \/ SmoothRepresentable(unit.verts[0])
    /\ \E factor \in SmoothFactors :
        unit' = [unit EXCEPT
                    !.pc = "done", !.n = @ + 1, !.factor = factor,
                    !.pre = unit.verts[0],
                    !.divisor = SmoothDivisor(unit.nb),
                    !.verts[0] = smooth_vertex_all_groups(unit.verts, unit.nb,
                                                          0, factor)]

SmoothCalled == unit.op = "smooth_vertex" /\ unit.pc = "done"

\* the vertex has no neighbours, or their edge weights sum to 1e-5 or less
Degenerate == unit.nb = {} \/ RLeq(EdgeWeightSum(unit.nb), <<1, 100000>>)

\* C14: a vertex with no neighbours, or whose neighbours' edge weights sum
\* to (near) zero, has the same group weights after Smooth as before, and
\* the routine never divides by a zero edge-weight sum.
C14_DegenerateUnchanged ==
    SmoothCalled =>
        /\ Degenerate => (unit.verts[0] = unit.pre /\ unit.divisor = Absent)
        /\ unit.divisor # Zero

\* a vertex whose two neighbours differ from it but lie so far away that
\* their edge weights sum to 1e-5, smoothed with factor 1
C14_Witness ==
    /\ SmoothCalled
    /\ unit.nb = {<<1, <<1, 200000>> >>, <<2, <<1, 200000>> >>}
    /\ unit.factor = One
    /\ unit.verts[1] # unit.pre /\ unit.verts[2] # unit.pre
    /\ unit.verts[0] = unit.pre

\* every neighbour carries the distribution the smoothed vertex started
\* with, which has at most STRIDE groups and sums to 1.0
UniformRegion ==
    /\ \A e \in unit.nb : unit.verts[e[1]] = unit.first
    /\ Cardinality(Keys(unit.first)) <= STRIDE
    /\ Total(unit.first) = One

LastBlended ==
    SmoothBlend([unit.verts EXCEPT ![0] = unit.pre], unit.nb, 0, unit.factor)

----------------------------------------------------------------------------
(* paint_stroke: the target vertices and their factors                     *)

\* cursor positions on the line of vertices, and world radii
\* (calculate_world_radius returns a vector length: never negative)
CursorChoices == {Zero, <<1, 4>>, Half, One, <<3, 2>>}
RadiusChoices == {Zero, <<1, 4>>, Half, One, <<2, 1>>}

\* wynn_brush_strength (min 0.01, max 1.0)
StrengthChoices == {<<1, 100>>, Half, One}

InitTargets ==
    \E x \in CursorChoices, r \in RadiusChoices, strength \in StrengthChoices :
        unit = [op |-> "targets", pc |-> "call",
                p |-> [hit |-> TRUE, x |-> x, r |-> r],
                strength |-> strength, targets |-> {}]

Targets ==
    /\ unit.op = "targets" /\ unit.pc = "call"
    /\ unit' = [unit EXCEPT !.pc = "done",
                            !.targets = StrokeTargets(unit.p, unit.strength)]

\* the distance of vertex v from the cursor of the last targeting call
CursorDist(v) == RAbs(RSub(Rat(v, 1), unit.p.x))

\* C17: the stroke targets exactly the vertices with dist < radius, each
\* with the strictly positive falloff 1 - dist^2 / radius^2 (times the
\* strength); a radius <= 0 gives no target at all.
C17_GeometricFalloff ==
    (unit.op = "targets" /\ unit.pc = "done") =>
        /\ {t[1] : t \in unit.targets}
              = {v \in BVerts : RLt(CursorDist(v), unit.p.r)}
        /\ RLeq(unit.p.r, Zero) => unit.targets = {}
        /\ RLt(Zero, unit.p.r) =>
              \A t \in unit.targets :
                  LET quad ==
                          RSub(One, RDiv(RMul(CursorDist(t[1]), CursorDist(t[1])),
                                         RMul(unit.p.r, unit.p.r)))
                  IN  RLt(Zero, quad) /\ t[2] = RMul(unit.strength, quad)

----------------------------------------------------------------------------
(* paint_stroke: the native call site and the Python fallback, same stroke  *)

\* the events that start a stroke: paint, harden (Ctrl) and blur (Shift)
StrokeEvents ==
    {ev \in Events : ev.type = "LEFTMOUSE" /\ ev.value = "PRESS"
                     /\ ~(ev.ctrl /\ ev.shift)}

\* the factor the native call site hands over for target (v, strength *
\* falloff): base_factor = strength * 0.5 for blur, target_factors[count]
\* = strength * falloff for paint and harden
NativeFactors(p, strength, ev) ==
    [v \in {t[1] : t \in StrokeTargets(p, strength)} |->
        IF ev.shift THEN RMul(strength, Half)
        ELSE (CHOOSE t \in StrokeTargets(p, strength) : t[1] = v)[2]]

\* final_factor of the fallback loop
FallbackFactors(p, strength, ev) ==
    [v \in {t[1] : t \in StrokeTargets(p, strength)} |->
        LET base_factor == (CHOOSE t \in StrokeTargets(p, strength) : t[1] = v)[2]
        IN  IF ev.shift THEN RMul(base_factor, Half)
            ELSE IF ev.ctrl THEN RMul(base_factor, <<1, 4>>)
            ELSE base_factor]

\* a session of the given library kind with active group 0
SessionOf(kind) == [SessionIdle EXCEPT !.dll = kind, !.active = 0, !.alive = TRUE]

InitPaths ==
    \E d0 \in BrushChoices, dn \in BrushNeighbourChoices, p \in Pointers,
       strength \in BrushStrengths, ev \in StrokeEvents :
        unit = [op |-> "paths", pc |-> "call",
                mesh |-> Tab([v \in BVerts |-> IF v = 0 THEN d0 ELSE dn]),
                p |-> p, strength |-> strength, ev |-> ev,
                native |-> <<>>, fallback |-> <<>>,
                native_factors |-> <<>>, fallback_factors |-> <<>>]

\* the same stroke through both branches of paint_stroke
Paths ==
    /\ unit.op = "paths" /\ unit.pc = "call"
    /\ \E st \in {Tab([v \in BVerts |-> LoadStrided(unit.mesh[v])])} :
        \E n \in {PaintStroke(unit.mesh, st, SessionOf("new"), unit.ev, unit.p,
                              unit.strength, -1)},
           f \in {PaintStroke(unit.mesh, st, SessionOf("none"), unit.ev, unit.p,
                              unit.strength, -1)} :
            unit' = [unit EXCEPT
                        !.pc = "done",
                        !.native = [mesh |-> n.mesh, raised |-> n.raised],
                        !.fallback = [mesh |-> f.mesh, raised |-> f.raised],
                        !.native_factors =
                            NativeFactors(unit.p, unit.strength, unit.ev),
                        !.fallback_factors =
                            FallbackFactors(unit.p, unit.strength, unit.ev)]

\* C26: for the same stroke the fallback has the same targets and the same
\* per-vertex factor as the native call site, completes like it and leaves
\* the same weights.
C26_FallbackEquivalent ==
    (unit.op = "paths" /\ unit.pc = "done" /\ unit.p.hit) =>
        /\ DOMAIN unit.fallback_factors = DOMAIN unit.native_factors
        /\ unit.fallback_factors = unit.native_factors
        /\ unit.fallback.raised = unit.native.raised
        /\ unit.fallback.mesh = unit.native.mesh

----------------------------------------------------------------------------
(* Specifications: one per operator, the others at rest                     *)

EditAtRest == edit = EditIdle /\ elast = ElastIdle

BrushAtRest ==
    /\ mesh = BrushIdle /\ store = BrushIdle
    /\ undo_stack = <<>> /\ hist = <<>>
    /\ painting = FALSE /\ nav = "none" /\ session = SessionIdle

OperatorsAtRest ==
    /\ harden = HardenIdle /\ falloff = FalloffIdle /\ adj = AdjIdle
    /\ EditAtRest /\ unit = UnitIdle

brush_vars == <<mesh, store, undo_stack, hist, painting, nav, session>>

InitSpecHarden ==
    /\ InitHarden /\ falloff = FalloffIdle /\ adj = AdjIdle /\ EditAtRest /\ BrushAtRest
    /\ unit = UnitIdle

NextHarden == HardenStep /\ UNCHANGED <<falloff, adj, edit, elast, brush_vars, unit>>

SpecHarden == InitSpecHarden /\ [][NextHarden]_vars

InitSpecFalloff ==
    /\ InitFalloff /\ harden = HardenIdle /\ adj = AdjIdle /\ EditAtRest /\ BrushAtRest
    /\ unit = UnitIdle

NextFalloff == FalloffCall /\ UNCHANGED <<harden, adj, edit, elast, brush_vars, unit>>

SpecFalloff == InitSpecFalloff /\ [][NextFalloff]_vars

InitSpecAdj ==
    /\ InitAdj /\ harden = HardenIdle /\ falloff = FalloffIdle /\ EditAtRest /\ BrushAtRest
    /\ unit = UnitIdle

NextAdj == AdjBuild /\ UNCHANGED <<harden, falloff, edit, elast, brush_vars, unit>>

SpecAdj == InitSpecAdj /\ [][NextAdj]_vars

InitSpecEdit ==
    /\ InitEdit /\ harden = HardenIdle /\ falloff = FalloffIdle /\ adj = AdjIdle
    /\ BrushAtRest /\ unit = UnitIdle

NextAdd == EditAdd /\ UNCHANGED <<harden, falloff, adj, brush_vars, unit>>

SpecAdd == InitSpecEdit /\ [][NextAdd]_vars

NextSmooth == EditSmooth /\ UNCHANGED <<harden, falloff, adj, brush_vars, unit>>

SpecSmooth == InitSpecEdit /\ [][NextSmooth]_vars

NextHardenOp == EditHarden /\ UNCHANGED <<harden, falloff, adj, brush_vars, unit>>

SpecHardenOp == InitSpecEdit /\ [][NextHardenOp]_vars

RestExceptUnit ==
    /\ harden = HardenIdle /\ falloff = FalloffIdle /\ adj = AdjIdle
    /\ EditAtRest /\ BrushAtRest

unit_rest == <<harden, falloff, adj, edit, elast, brush_vars>>

InitSpecPopulate == InitPopulate /\ RestExceptUnit

NextPopulate == Populate /\ UNCHANGED unit_rest

SpecPopulate == InitSpecPopulate /\ [][NextPopulate]_vars

InitSpecSmoothVertex == InitSmoothVertex /\ RestExceptUnit

NextSmoothVertex == SmoothVertexCall /\ UNCHANGED unit_rest

SpecSmoothVertex == InitSpecSmoothVertex /\ [][NextSmoothVertex]_vars

InitSpecTargets == InitTargets /\ RestExceptUnit

NextTargets == Targets /\ UNCHANGED unit_rest

SpecTargets == InitSpecTargets /\ [][NextTargets]_vars

InitSpecPaths == InitPaths /\ RestExceptUnit

NextPaths == Paths /\ UNCHANGED unit_rest

SpecPaths == InitSpecPaths /\ [][NextPaths]_vars

\* a brush session with any library, on any of the meshes
InitSpecBrush ==
    /\ InitBrush(MaxPresses, MaxStrokes, DllKinds, BrushChoices \cup {NoWeights})
    /\ OperatorsAtRest

SpecBrush == InitSpecBrush /\ [][NextBrush]_vars

\* a brush session long enough to fill the undo stack
InitSpecUndo ==
    /\ InitBrush(UNDO_LIMIT + CapExtra, CapStrokes, {"new"},
                 {Dv(<<1, 4>>, <<3, 4>>, Absent),
                  Dv(Eps, <<9999, 10000>>, Absent)})
    /\ OperatorsAtRest

\* stroke starts, strokes, releases and undos
NextUndo ==
    \/ ModalUndo
    \/ ModalLeftPress
    \/ ModalLeftRelease
    \/ ModalMove

SpecUndo == InitSpecUndo /\ [][NextUndo]_vars

====
